---- MODULE Spec2Model ----
(***************************************************************************)
(* Model of server.py: the /api/transcribe and /api/search handlers, the   *)
(* wall clock they read, the temporary directory they write to and the     *)
(* external providers they call.  Handlers are coroutines on one event     *)
(* loop: code between two awaits runs atomically, and the only await of    *)
(* the two handlers is `await file.read()` in transcribe_audio.  Every     *)
(* call of the handlers that can raise has its outcome chosen by the       *)
(* environment, the print() statements that write the log included.        *)
(***************************************************************************)
EXTENDS Integers, Sequences, FiniteSets, TLC

VARIABLES now, fs, treq, sreq

vars == <<now, fs, treq, sreq>>

(* ------------------------------ bounds --------------------------------- *)

\* the clock's second-of-day runs over 0 .. MaxSec
MaxSec == 1
\* the clock passes midnight at most MaxDays times in a behaviour
MaxDays == 1
\* the search provider returns at most MaxResults organic results
MaxResults == 4

\* the two transcription requests that may be in flight together
Slots == {1, 2}

(* --------------------------- clock and dates --------------------------- *)

IsLeap(y) == (y % 4 = 0 /\ y % 100 # 0) \/ y % 400 = 0

DaysInMonth(y, m) ==
    IF m = 2 THEN (IF IsLeap(y) THEN 29 ELSE 28)
    ELSE IF m \in {4, 6, 9, 11} THEN 30 ELSE 31

\* the date one day after date t (the clock passing midnight)
Tomorrow(t) ==
    IF t.d < DaysInMonth(t.y, t.m) THEN [y |-> t.y, m |-> t.m, d |-> t.d + 1]
    ELSE IF t.m < 12 THEN [y |-> t.y, m |-> t.m + 1, d |-> 1]
    ELSE [y |-> t.y + 1, m |-> 1, d |-> 1]

\* datetime.now() - timedelta(days=1), date part
Yesterday(t) ==
    IF t.d > 1 THEN [y |-> t.y, m |-> t.m, d |-> t.d - 1]
    ELSE IF t.m > 1 THEN [y |-> t.y, m |-> t.m - 1, d |-> DaysInMonth(t.y, t.m - 1)]
    ELSE [y |-> t.y - 1, m |-> 12, d |-> 31]

MonthName ==
    <<"January", "February", "March", "April", "May", "June", "July",
      "August", "September", "October", "November", "December">>

Pad2(n) == IF n < 10 THEN "0" \o ToString(n) ELSE ToString(n)

\* strftime('%B %d, %Y')
LongDate(t) == MonthName[t.m] \o " " \o Pad2(t.d) \o ", " \o ToString(t.y)

\* strftime('%Y%m%d_%H%M%S') of the clock value c
Stamp(c) ==
    ToString(c.y) \o Pad2(c.m) \o Pad2(c.d) \o "_" \o
    Pad2(c.s \div 3600) \o Pad2((c.s \div 60) % 60) \o Pad2(c.s % 60)

DateOf(c) == [y |-> c.y, m |-> c.m, d |-> c.d]

\* the clock one second after c, and at the midnight after c
NextSecond(c) == [c EXCEPT !.s = c.s + 1]

NextDay(c) == Tomorrow(DateOf(c)) @@ [s |-> 0, n |-> c.n + 1]

RECURSIVE ClockAfter(_)
\* the values the clock may show at or after the value c
ClockAfter(c) ==
    {c} \cup (IF c.s < MaxSec THEN ClockAfter(NextSecond(c)) ELSE {})
        \cup (IF c.n < MaxDays THEN ClockAfter(NextDay(c)) ELSE {})

\* those of them at the second of c or at a later midnight
DaysAfter(c) == { l \in ClockAfter(c) : l = c \/ l.s = 0 }

TEMP_DIR == "/tmp"

\* os.path.join(TEMP_DIR, f"temp_audio_{...}.wav")
TranscribePath(c) == TEMP_DIR \o "/temp_audio_" \o Stamp(c) \o ".wav"

\* os.path.join(TEMP_DIR, f"response_{...}.mp3")
SearchPath(c) == TEMP_DIR \o "/response_" \o Stamp(c) \o ".mp3"

\* dates the clock may show when the server starts
StartDates ==
    { [y |-> 2024, m |-> 2, d |-> 29], [y |-> 2023, m |-> 12, d |-> 31],
      [y |-> 2023, m |-> 2, d |-> 28] }

(* ---------------------------- file system ------------------------------ *)
\* fs is the set of directory entries of TEMP_DIR: [path, ino, data].
\* ino tells files apart that were created under the same name.

Exists(f, p) == \E e \in f : e.path = p

Entry(f, p) == CHOOSE e \in f : e.path = p

\* a file identity no entry and no open descriptor uses
FreshIno(f, held) ==
    CHOOSE i \in 1 .. (Cardinality(f) + Cardinality(held) + 1) :
        /\ \A e \in f : e.ino # i
        /\ i \notin held

\* open(p, 'wb'): create the file, or truncate the one already there
OpenWB(f, p, held) ==
    IF Exists(f, p)
    THEN (f \ {Entry(f, p)}) \cup {[path |-> p, ino |-> Entry(f, p).ino, data |-> <<>>]}
    ELSE f \cup {[path |-> p, ino |-> FreshIno(f, held), data |-> <<>>]}

\* write bytes at offset 0 through a descriptor of file ino; a file
\* already unlinked takes the bytes with it
WriteAt0(f, ino, bytes) ==
    { IF e.ino = ino
      THEN [e EXCEPT !.data = bytes \o SubSeq(e.data, Len(bytes) + 1, Len(e.data))]
      ELSE e : e \in f }

\* os.remove(p)
Remove(f, p) == { e \in f : e.path # p }

(* -------------------------- /api/transcribe ---------------------------- *)

\* the uploads a client may send
Uploads == {<<>>, <<1>>, <<2, 2>>}

RECURSIVE BytesText(_)
BytesText(bs) ==
    IF bs = <<>> THEN "" ELSE ToString(Head(bs)) \o "." \o BytesText(Tail(bs))

\* transcript.text the speech-to-text provider returns for the audio it is sent
Whisper(audio) == "heard " \o BytesText(audio)

\* JSONResponse(status_code=500, content={"error": msg})
Failure(msg) == [status |-> 500, body |-> [error |-> msg]]

\* JSONResponse(content=body)
Success(body) == [status |-> 200, body |-> body]

\* the answer of the framework to an exception that leaves a handler
ServerError == [status |-> 500, body |-> [plain |-> "Internal Server Error"]]

NoResponse == [status |-> 0, body |-> [error |-> ""]]

\* str(e) of the exception a print() raises when stdout does not take the
\* text (stream closed or broken, text outside the encoding of the stream)
PrintError == "cannot write to stdout"

\* the print() statements of transcribe_audio, by line; those before and
\* those after `await file.read()`
StartPrints == {103, 124, 160}

ResumePrints == {115, 121, 124, 132, 140, 143, 153, 155, 160}

\* lines 159-164: the catch-all of transcribe_audio
TranscribeUnexpected(bad) ==
    IF 160 \in bad THEN ServerError ELSE Failure("Unexpected error: " \o PrintError)

\* outcome o is one the handler can meet for the upload: a step it does not
\* reach takes its success value, a print() it does not reach does not raise
Reachable(content, o) ==
    LET saved == o.read_ok /\ content # <<>> /\ o.wrote = Len(content) IN
    /\ o.wrote <= Len(content)
    /\ (~o.read_ok) => o.wrote = Len(content)
    /\ (~saved) => (o.stt_ok /\ o.remove_ok /\ o.bad \subseteq {124, 160})
    /\ 115 \in o.bad => (o.stt_ok /\ o.remove_ok /\ o.bad \subseteq {115, 124, 160})
    /\ 121 \in o.bad => (o.stt_ok /\ o.remove_ok /\ o.bad \subseteq {121, 124, 160})
    /\ 124 \in o.bad => (o.stt_ok /\ o.remove_ok
                           /\ o.bad \cap {132, 140, 143, 153, 155} = {})
    /\ 132 \in o.bad => (o.stt_ok /\ 140 \notin o.bad)
    /\ (~o.stt_ok) => 140 \notin o.bad
    /\ 143 \in o.bad => (132 \in o.bad \/ ~o.stt_ok \/ 140 \in o.bad)
    /\ 153 \in o.bad => o.remove_ok
    /\ 155 \in o.bad => (153 \in o.bad \/ ~o.remove_ok)
    /\ 160 \in o.bad => (124 \in o.bad \/ 143 \in o.bad \/ 155 \in o.bad)

\* the length of the longest upload
MaxUpload == CHOOSE n \in { Len(c) : c \in Uploads } : \A c \in Uploads : Len(c) <= n

\* What the environment does to one transcription request:
\*   open_ok    open(temp_path, 'wb') succeeds
\*   read_ok    await file.read() returns the upload
\*   wrote      bytes f.write() stores before it returns or raises
\*   stt_ok     client.audio.transcriptions.create returns a transcript
\*   remove_ok  os.remove(temp_path) succeeds
\*   bad        the print() statements that raise when they are reached
AllTOutcomes ==
    { p : p \in { p \in Uploads \X [open_ok : {TRUE}, read_ok : BOOLEAN,
                                    wrote : 0 .. MaxUpload, stt_ok : BOOLEAN,
                                    remove_ok : BOOLEAN, bad : SUBSET ResumePrints] :
                    Reachable(p[1], p[2]) } }

TOutcomes(content) == { p[2] : p \in { p \in AllTOutcomes : p[1] = content } }

AllWell ==
    [open_ok |-> TRUE, read_ok |-> TRUE, wrote |-> 0,
     stt_ok |-> TRUE, remove_ok |-> TRUE, bad |-> {}]

IdleT ==
    [pc |-> "idle", content |-> <<>>, temp_path |-> "", fd |-> 0, o |-> AllWell,
     stt_called |-> FALSE, response |-> NoResponse]

\* lines 123-128: the handler of the save stage; seen are the print()
\* statements reached before it
SaveError(f, msg, bad, seen) ==
    [fs |-> f, stt_called |-> FALSE, removing |-> FALSE,
     prints |-> seen \cup {124} \cup (IF 124 \in bad THEN {160} ELSE {}),
     response |-> IF 124 \in bad THEN TranscribeUnexpected(bad)
                  ELSE Failure("Error saving file: " \o msg)]

\* lines 103-111: log the arrival, name the file, open it for writing,
\* suspend in file.read()
SaveOpen(f, path, held, o) ==
    IF 103 \in o.bad
    THEN [fs |-> f, fd |-> 0, done |-> TRUE, prints |-> {103, 160},
          response |-> TranscribeUnexpected(o.bad)]
    ELSE IF o.open_ok
    THEN [fs |-> OpenWB(f, path, held), fd |-> Entry(OpenWB(f, path, held), path).ino,
          done |-> FALSE, prints |-> {103}, response |-> NoResponse]
    ELSE [fs |-> f, fd |-> 0, done |-> TRUE,
          prints |-> {103} \cup SaveError(f, "cannot open", o.bad, {}).prints,
          response |-> SaveError(f, "cannot open", o.bad, {}).response]

\* lines 150-152 of the finally clause: the file system after it
Cleanup(f, path, o) ==
    IF Exists(f, path) /\ o.remove_ok THEN Remove(f, path) ELSE f

\* Transcribe with a provider failure answered by an empty transcript
Transcribe_Placeholder(f, path, o) ==
    [fs |-> Cleanup(f, path, o), stt_called |-> TRUE, removing |-> TRUE,
     prints |-> o.bad,
     response |-> Success([text |-> IF o.stt_ok THEN Whisper(Entry(f, path).data) ELSE ""])]

\* lines 130-164: send the file at path to the provider, clean up, answer.
\* The try ends "ok", "failed" (the provider raised) or "unlogged" (a print()
\* of the try raised); the except clause logs and answers 500; the finally
\* clause removes the file and logs; an exception of a print() in the except
\* or the finally clause goes to the catch-all.
Transcribe(f, path, o) ==
    LET bad == o.bad
        try == IF 132 \in bad THEN "unlogged"
               ELSE IF ~o.stt_ok THEN "failed"
               ELSE IF 140 \in bad THEN "unlogged" ELSE "ok"
        there == Exists(f, path)
        removed == there /\ o.remove_ok
        logs155 == (removed /\ 153 \in bad) \/ (there /\ ~o.remove_ok)
        caught == try # "ok" /\ 143 \in bad
        escaped == (logs155 /\ 155 \in bad) \/ caught
    IN [fs |-> Cleanup(f, path, o),
        stt_called |-> 132 \notin bad,
        removing |-> there,
        prints |-> {132} \cup (IF 132 \notin bad /\ o.stt_ok THEN {140} ELSE {})
                        \cup (IF try # "ok" THEN {143} ELSE {})
                        \cup (IF removed THEN {153} ELSE {})
                        \cup (IF logs155 THEN {155} ELSE {})
                        \cup (IF escaped THEN {160} ELSE {}),
        response |->
            IF escaped THEN TranscribeUnexpected(bad)
            ELSE IF try = "ok" THEN Success([text |-> Whisper(Entry(f, path).data)])
            ELSE IF try = "failed"
            THEN Failure("Error during transcription: provider error")
            ELSE Failure("Error during transcription: " \o PrintError)]

\* SaveAndTranscribe without the two emptiness checks
SaveAndTranscribe_Unchecked(f, path, fd, content, o) ==
    IF ~o.read_ok
    THEN SaveError(f, "read failed", o.bad, {})
    ELSE IF o.wrote < Len(content)
    THEN SaveError(WriteAt0(f, fd, SubSeq(content, 1, o.wrote)), "write failed", o.bad, {})
    ELSE LET g == WriteAt0(f, fd, content) IN
         IF 115 \in o.bad
         THEN SaveError(g, PrintError, o.bad, {115})
         ELSE IF ~Exists(g, path)
         THEN SaveError(g, "No such file or directory", o.bad, {115})
         ELSE IF 121 \in o.bad
         THEN SaveError(g, PrintError, o.bad, {115, 121})
         ELSE LET r == Transcribe(g, path, o) IN
              [r EXCEPT !.prints = r.prints \cup {115, 121}]

\* lines 111-164: file.read() has returned; write, check the size, transcribe
SaveAndTranscribe(f, path, fd, content, o) ==
    IF ~o.read_ok
    THEN SaveError(f, "read failed", o.bad, {})
    ELSE IF content = <<>>
    THEN SaveError(f, "Empty file received", o.bad, {})
    ELSE IF o.wrote < Len(content)
    THEN SaveError(WriteAt0(f, fd, SubSeq(content, 1, o.wrote)), "write failed", o.bad, {})
    ELSE LET g == WriteAt0(f, fd, content) IN
         IF 115 \in o.bad
         THEN SaveError(g, PrintError, o.bad, {115})
         ELSE IF ~Exists(g, path)
         THEN SaveError(g, "No such file or directory", o.bad, {115})
         ELSE IF Len(Entry(g, path).data) = 0
         THEN SaveError(g, "File is empty", o.bad, {115})
         ELSE IF 121 \in o.bad
         THEN SaveError(g, PrintError, o.bad, {115, 121})
         ELSE LET r == Transcribe(g, path, o) IN
              [r EXCEPT !.prints = r.prints \cup {115, 121}]

\* no response is waiting to go out.  Sending a response touches nothing the
\* handlers share, so it is taken before the next step of any handler.
Quiet == \A s \in Slots : treq[s].pc # "done"

\* descriptors the suspended requests hold
Held == { treq[s].fd : s \in Slots } \ {0}

\* a request arrives and runs up to `await file.read()`
TranscribeStart(s, content, open_ok, bad) ==
    /\ treq[s].pc = "idle"
    /\ Quiet
    /\ LET path == TranscribePath(now)
           o == [AllWell EXCEPT !.open_ok = open_ok, !.wrote = Len(content), !.bad = bad]
           r == SaveOpen(fs, path, Held, o)
       IN /\ bad \subseteq r.prints
          /\ 103 \in bad => open_ok
          /\ fs' = r.fs
          /\ treq' = [treq EXCEPT ![s] =
                [pc |-> IF r.done THEN "done" ELSE "reading",
                 content |-> content, temp_path |-> path, fd |-> r.fd, o |-> o,
                 stt_called |-> FALSE, response |-> r.response]]
    /\ UNCHANGED <<now, sreq>>

\* file.read() returns and the handler runs to its return statement
TranscribeResume(s, o) ==
    /\ treq[s].pc = "reading"
    /\ Quiet
    /\ LET q == treq[s]
           r == SaveAndTranscribe(fs, q.temp_path, q.fd, q.content, o)
       IN /\ o.bad \subseteq r.prints
          /\ r.stt_called \/ o.stt_ok
          /\ r.removing \/ o.remove_ok
          /\ fs' = r.fs
          /\ treq' = [treq EXCEPT ![s] =
                [q EXCEPT !.pc = "done", !.fd = 0, !.o = o,
                          !.stt_called = r.stt_called, !.response = r.response]]
    /\ UNCHANGED <<now, sreq>>

\* the response has gone to the client
TranscribeReturn(s) ==
    /\ treq[s].pc = "done"
    /\ treq' = [treq EXCEPT ![s] = IdleT]
    /\ UNCHANGED <<now, fs, sreq>>

\* the response the request gets when no other request runs and TEMP_DIR is empty
TranscribeAlone(content, o) ==
    LET a == SaveOpen({}, "alone.wav", {}, o) IN
    IF a.done THEN a.response
    ELSE SaveAndTranscribe(a.fs, "alone.wav", a.fd, content, o).response


(* ---------------------------- /api/search ------------------------------ *)
\* A query is the sequence of the character codes of request.query.

\* str.lower() follows the Unicode character database of the interpreter
\* (Unicode 14.0).  A run <<first, last, step, delta>> says that the codes
\* first, first + step, ..., last have the lowercase code + delta.
LowerRuns ==
    << <<65, 90, 1, 32>>, <<192, 214, 1, 32>>, <<216, 222, 1, 32>>,
       <<256, 302, 2, 1>>, <<306, 310, 2, 1>>, <<313, 327, 2, 1>>,
       <<330, 374, 2, 1>>, <<376, 376, 1, -121>>, <<377, 381, 2, 1>>,
       <<385, 385, 1, 210>>, <<386, 388, 2, 1>>, <<390, 390, 1, 206>>,
       <<391, 391, 1, 1>>, <<393, 394, 1, 205>>, <<395, 395, 1, 1>>,
       <<398, 398, 1, 79>>, <<399, 399, 1, 202>>, <<400, 400, 1, 203>>,
       <<401, 401, 1, 1>>, <<403, 403, 1, 205>>, <<404, 404, 1, 207>>,
       <<406, 406, 1, 211>>, <<407, 407, 1, 209>>, <<408, 408, 1, 1>>,
       <<412, 412, 1, 211>>, <<413, 413, 1, 213>>, <<415, 415, 1, 214>>,
       <<416, 420, 2, 1>>, <<422, 422, 1, 218>>, <<423, 423, 1, 1>>,
       <<425, 425, 1, 218>>, <<428, 428, 1, 1>>, <<430, 430, 1, 218>>,
       <<431, 431, 1, 1>>, <<433, 434, 1, 217>>, <<435, 437, 2, 1>>,
       <<439, 439, 1, 219>>, <<440, 440, 1, 1>>, <<444, 444, 1, 1>>,
       <<452, 452, 1, 2>>, <<453, 453, 1, 1>>, <<455, 455, 1, 2>>,
       <<456, 456, 1, 1>>, <<458, 458, 1, 2>>, <<459, 475, 2, 1>>,
       <<478, 494, 2, 1>>, <<497, 497, 1, 2>>, <<498, 500, 2, 1>>,
       <<502, 502, 1, -97>>, <<503, 503, 1, -56>>, <<504, 542, 2, 1>>,
       <<544, 544, 1, -130>>, <<546, 562, 2, 1>>, <<570, 570, 1, 10795>>,
       <<571, 571, 1, 1>>, <<573, 573, 1, -163>>, <<574, 574, 1, 10792>>,
       <<577, 577, 1, 1>>, <<579, 579, 1, -195>>, <<580, 580, 1, 69>>,
       <<581, 581, 1, 71>>, <<582, 590, 2, 1>>, <<880, 882, 2, 1>>,
       <<886, 886, 1, 1>>, <<895, 895, 1, 116>>, <<902, 902, 1, 38>>,
       <<904, 906, 1, 37>>, <<908, 908, 1, 64>>, <<910, 911, 1, 63>>,
       <<913, 929, 1, 32>>, <<931, 939, 1, 32>>, <<975, 975, 1, 8>>,
       <<984, 1006, 2, 1>>, <<1012, 1012, 1, -60>>, <<1015, 1015, 1, 1>>,
       <<1017, 1017, 1, -7>>, <<1018, 1018, 1, 1>>, <<1021, 1023, 1, -130>>,
       <<1024, 1039, 1, 80>>, <<1040, 1071, 1, 32>>, <<1120, 1152, 2, 1>>,
       <<1162, 1214, 2, 1>>, <<1216, 1216, 1, 15>>, <<1217, 1229, 2, 1>>,
       <<1232, 1326, 2, 1>>, <<1329, 1366, 1, 48>>, <<4256, 4293, 1, 7264>>,
       <<4295, 4295, 1, 7264>>, <<4301, 4301, 1, 7264>>,
       <<5024, 5103, 1, 38864>>, <<5104, 5109, 1, 8>>,
       <<7312, 7354, 1, -3008>>, <<7357, 7359, 1, -3008>>,
       <<7680, 7828, 2, 1>>, <<7838, 7838, 1, -7615>>, <<7840, 7934, 2, 1>>,
       <<7944, 7951, 1, -8>>, <<7960, 7965, 1, -8>>, <<7976, 7983, 1, -8>>,
       <<7992, 7999, 1, -8>>, <<8008, 8013, 1, -8>>, <<8025, 8031, 2, -8>>,
       <<8040, 8047, 1, -8>>, <<8072, 8079, 1, -8>>, <<8088, 8095, 1, -8>>,
       <<8104, 8111, 1, -8>>, <<8120, 8121, 1, -8>>, <<8122, 8123, 1, -74>>,
       <<8124, 8124, 1, -9>>, <<8136, 8139, 1, -86>>, <<8140, 8140, 1, -9>>,
       <<8152, 8153, 1, -8>>, <<8154, 8155, 1, -100>>, <<8168, 8169, 1, -8>>,
       <<8170, 8171, 1, -112>>, <<8172, 8172, 1, -7>>, <<8184, 8185, 1, -128>>,
       <<8186, 8187, 1, -126>>, <<8188, 8188, 1, -9>>,
       <<8486, 8486, 1, -7517>>, <<8490, 8490, 1, -8383>>,
       <<8491, 8491, 1, -8262>>, <<8498, 8498, 1, 28>>, <<8544, 8559, 1, 16>>,
       <<8579, 8579, 1, 1>>, <<9398, 9423, 1, 26>>, <<11264, 11311, 1, 48>>,
       <<11360, 11360, 1, 1>>, <<11362, 11362, 1, -10743>>,
       <<11363, 11363, 1, -3814>>, <<11364, 11364, 1, -10727>>,
       <<11367, 11371, 2, 1>>, <<11373, 11373, 1, -10780>>,
       <<11374, 11374, 1, -10749>>, <<11375, 11375, 1, -10783>>,
       <<11376, 11376, 1, -10782>>, <<11378, 11378, 1, 1>>,
       <<11381, 11381, 1, 1>>, <<11390, 11391, 1, -10815>>,
       <<11392, 11490, 2, 1>>, <<11499, 11501, 2, 1>>, <<11506, 11506, 1, 1>>,
       <<42560, 42604, 2, 1>>, <<42624, 42650, 2, 1>>, <<42786, 42798, 2, 1>>,
       <<42802, 42862, 2, 1>>, <<42873, 42875, 2, 1>>,
       <<42877, 42877, 1, -35332>>, <<42878, 42886, 2, 1>>,
       <<42891, 42891, 1, 1>>, <<42893, 42893, 1, -42280>>,
       <<42896, 42898, 2, 1>>, <<42902, 42920, 2, 1>>,
       <<42922, 42922, 1, -42308>>, <<42923, 42923, 1, -42319>>,
       <<42924, 42924, 1, -42315>>, <<42925, 42925, 1, -42305>>,
       <<42926, 42926, 1, -42308>>, <<42928, 42928, 1, -42258>>,
       <<42929, 42929, 1, -42282>>, <<42930, 42930, 1, -42261>>,
       <<42931, 42931, 1, 928>>, <<42932, 42946, 2, 1>>,
       <<42948, 42948, 1, -48>>, <<42949, 42949, 1, -42307>>,
       <<42950, 42950, 1, -35384>>, <<42951, 42953, 2, 1>>,
       <<42960, 42960, 1, 1>>, <<42966, 42968, 2, 1>>, <<42997, 42997, 1, 1>>,
       <<65313, 65338, 1, 32>>, <<66560, 66599, 1, 40>>,
       <<66736, 66771, 1, 40>>, <<66928, 66964, 2, 39>>,
       <<66929, 66937, 2, 39>>, <<66941, 66953, 2, 39>>,
       <<66957, 66961, 2, 39>>, <<66965, 66965, 1, 39>>,
       <<68736, 68786, 1, 64>>, <<71840, 71871, 1, 32>>,
       <<93760, 93791, 1, 32>>, <<125184, 125217, 1, 34>> >>

\* the case-ignorable characters, as runs <<first, last>>
CaseIgnorableRuns ==
    << <<39, 39>>, <<46, 46>>, <<58, 58>>, <<94, 94>>, <<96, 96>>,
       <<168, 168>>, <<173, 173>>, <<175, 175>>, <<180, 180>>, <<183, 184>>,
       <<688, 879>>, <<884, 885>>, <<890, 890>>, <<900, 901>>, <<903, 903>>,
       <<1155, 1161>>, <<1369, 1369>>, <<1375, 1375>>, <<1425, 1469>>,
       <<1471, 1471>>, <<1473, 1474>>, <<1476, 1477>>, <<1479, 1479>>,
       <<1524, 1524>>, <<1536, 1541>>, <<1552, 1562>>, <<1564, 1564>>,
       <<1600, 1600>>, <<1611, 1631>>, <<1648, 1648>>, <<1750, 1757>>,
       <<1759, 1768>>, <<1770, 1773>>, <<1807, 1807>>, <<1809, 1809>>,
       <<1840, 1866>>, <<1958, 1968>>, <<2027, 2037>>, <<2042, 2042>>,
       <<2045, 2045>>, <<2070, 2093>>, <<2137, 2139>>, <<2184, 2184>>,
       <<2192, 2193>>, <<2200, 2207>>, <<2249, 2306>>, <<2362, 2362>>,
       <<2364, 2364>>, <<2369, 2376>>, <<2381, 2381>>, <<2385, 2391>>,
       <<2402, 2403>>, <<2417, 2417>>, <<2433, 2433>>, <<2492, 2492>>,
       <<2497, 2500>>, <<2509, 2509>>, <<2530, 2531>>, <<2558, 2558>>,
       <<2561, 2562>>, <<2620, 2620>>, <<2625, 2626>>, <<2631, 2632>>,
       <<2635, 2637>>, <<2641, 2641>>, <<2672, 2673>>, <<2677, 2677>>,
       <<2689, 2690>>, <<2748, 2748>>, <<2753, 2757>>, <<2759, 2760>>,
       <<2765, 2765>>, <<2786, 2787>>, <<2810, 2815>>, <<2817, 2817>>,
       <<2876, 2876>>, <<2879, 2879>>, <<2881, 2884>>, <<2893, 2893>>,
       <<2901, 2902>>, <<2914, 2915>>, <<2946, 2946>>, <<3008, 3008>>,
       <<3021, 3021>>, <<3072, 3072>>, <<3076, 3076>>, <<3132, 3132>>,
       <<3134, 3136>>, <<3142, 3144>>, <<3146, 3149>>, <<3157, 3158>>,
       <<3170, 3171>>, <<3201, 3201>>, <<3260, 3260>>, <<3263, 3263>>,
       <<3270, 3270>>, <<3276, 3277>>, <<3298, 3299>>, <<3328, 3329>>,
       <<3387, 3388>>, <<3393, 3396>>, <<3405, 3405>>, <<3426, 3427>>,
       <<3457, 3457>>, <<3530, 3530>>, <<3538, 3540>>, <<3542, 3542>>,
       <<3633, 3633>>, <<3636, 3642>>, <<3654, 3662>>, <<3761, 3761>>,
       <<3764, 3772>>, <<3782, 3782>>, <<3784, 3789>>, <<3864, 3865>>,
       <<3893, 3893>>, <<3895, 3895>>, <<3897, 3897>>, <<3953, 3966>>,
       <<3968, 3972>>, <<3974, 3975>>, <<3981, 3991>>, <<3993, 4028>>,
       <<4038, 4038>>, <<4141, 4144>>, <<4146, 4151>>, <<4153, 4154>>,
       <<4157, 4158>>, <<4184, 4185>>, <<4190, 4192>>, <<4209, 4212>>,
       <<4226, 4226>>, <<4229, 4230>>, <<4237, 4237>>, <<4253, 4253>>,
       <<4348, 4348>>, <<4957, 4959>>, <<5906, 5908>>, <<5938, 5939>>,
       <<5970, 5971>>, <<6002, 6003>>, <<6068, 6069>>, <<6071, 6077>>,
       <<6086, 6086>>, <<6089, 6099>>, <<6103, 6103>>, <<6109, 6109>>,
       <<6155, 6159>>, <<6211, 6211>>, <<6277, 6278>>, <<6313, 6313>>,
       <<6432, 6434>>, <<6439, 6440>>, <<6450, 6450>>, <<6457, 6459>>,
       <<6679, 6680>>, <<6683, 6683>>, <<6742, 6742>>, <<6744, 6750>>,
       <<6752, 6752>>, <<6754, 6754>>, <<6757, 6764>>, <<6771, 6780>>,
       <<6783, 6783>>, <<6823, 6823>>, <<6832, 6862>>, <<6912, 6915>>,
       <<6964, 6964>>, <<6966, 6970>>, <<6972, 6972>>, <<6978, 6978>>,
       <<7019, 7027>>, <<7040, 7041>>, <<7074, 7077>>, <<7080, 7081>>,
       <<7083, 7085>>, <<7142, 7142>>, <<7144, 7145>>, <<7149, 7149>>,
       <<7151, 7153>>, <<7212, 7219>>, <<7222, 7223>>, <<7288, 7293>>,
       <<7376, 7378>>, <<7380, 7392>>, <<7394, 7400>>, <<7405, 7405>>,
       <<7412, 7412>>, <<7416, 7417>>, <<7468, 7530>>, <<7544, 7544>>,
       <<7579, 7679>>, <<8125, 8125>>, <<8127, 8129>>, <<8141, 8143>>,
       <<8157, 8159>>, <<8173, 8175>>, <<8189, 8190>>, <<8203, 8207>>,
       <<8216, 8217>>, <<8228, 8228>>, <<8231, 8231>>, <<8234, 8238>>,
       <<8288, 8292>>, <<8294, 8303>>, <<8305, 8305>>, <<8319, 8319>>,
       <<8336, 8348>>, <<8400, 8432>>, <<11388, 11389>>, <<11503, 11505>>,
       <<11631, 11631>>, <<11647, 11647>>, <<11744, 11775>>, <<11823, 11823>>,
       <<12293, 12293>>, <<12330, 12333>>, <<12337, 12341>>, <<12347, 12347>>,
       <<12441, 12446>>, <<12540, 12542>>, <<40981, 40981>>, <<42232, 42237>>,
       <<42508, 42508>>, <<42607, 42610>>, <<42612, 42621>>, <<42623, 42623>>,
       <<42652, 42655>>, <<42736, 42737>>, <<42752, 42785>>, <<42864, 42864>>,
       <<42888, 42890>>, <<42994, 42996>>, <<43000, 43001>>, <<43010, 43010>>,
       <<43014, 43014>>, <<43019, 43019>>, <<43045, 43046>>, <<43052, 43052>>,
       <<43204, 43205>>, <<43232, 43249>>, <<43263, 43263>>, <<43302, 43309>>,
       <<43335, 43345>>, <<43392, 43394>>, <<43443, 43443>>, <<43446, 43449>>,
       <<43452, 43453>>, <<43471, 43471>>, <<43493, 43494>>, <<43561, 43566>>,
       <<43569, 43570>>, <<43573, 43574>>, <<43587, 43587>>, <<43596, 43596>>,
       <<43632, 43632>>, <<43644, 43644>>, <<43696, 43696>>, <<43698, 43700>>,
       <<43703, 43704>>, <<43710, 43711>>, <<43713, 43713>>, <<43741, 43741>>,
       <<43756, 43757>>, <<43763, 43764>>, <<43766, 43766>>, <<43867, 43871>>,
       <<43881, 43883>>, <<44005, 44005>>, <<44008, 44008>>, <<44013, 44013>>,
       <<64286, 64286>>, <<64434, 64450>>, <<65024, 65039>>, <<65043, 65043>>,
       <<65056, 65071>>, <<65106, 65106>>, <<65109, 65109>>, <<65279, 65279>>,
       <<65287, 65287>>, <<65294, 65294>>, <<65306, 65306>>, <<65342, 65342>>,
       <<65344, 65344>>, <<65392, 65392>>, <<65438, 65439>>, <<65507, 65507>>,
       <<65529, 65531>>, <<66045, 66045>>, <<66272, 66272>>, <<66422, 66426>>,
       <<67456, 67461>>, <<67463, 67504>>, <<67506, 67514>>, <<68097, 68099>>,
       <<68101, 68102>>, <<68108, 68111>>, <<68152, 68154>>, <<68159, 68159>>,
       <<68325, 68326>>, <<68900, 68903>>, <<69291, 69292>>, <<69446, 69456>>,
       <<69506, 69509>>, <<69633, 69633>>, <<69688, 69702>>, <<69744, 69744>>,
       <<69747, 69748>>, <<69759, 69761>>, <<69811, 69814>>, <<69817, 69818>>,
       <<69821, 69821>>, <<69826, 69826>>, <<69837, 69837>>, <<69888, 69890>>,
       <<69927, 69931>>, <<69933, 69940>>, <<70003, 70003>>, <<70016, 70017>>,
       <<70070, 70078>>, <<70089, 70092>>, <<70095, 70095>>, <<70191, 70193>>,
       <<70196, 70196>>, <<70198, 70199>>, <<70206, 70206>>, <<70367, 70367>>,
       <<70371, 70378>>, <<70400, 70401>>, <<70459, 70460>>, <<70464, 70464>>,
       <<70502, 70508>>, <<70512, 70516>>, <<70712, 70719>>, <<70722, 70724>>,
       <<70726, 70726>>, <<70750, 70750>>, <<70835, 70840>>, <<70842, 70842>>,
       <<70847, 70848>>, <<70850, 70851>>, <<71090, 71093>>, <<71100, 71101>>,
       <<71103, 71104>>, <<71132, 71133>>, <<71219, 71226>>, <<71229, 71229>>,
       <<71231, 71232>>, <<71339, 71339>>, <<71341, 71341>>, <<71344, 71349>>,
       <<71351, 71351>>, <<71453, 71455>>, <<71458, 71461>>, <<71463, 71467>>,
       <<71727, 71735>>, <<71737, 71738>>, <<71995, 71996>>, <<71998, 71998>>,
       <<72003, 72003>>, <<72148, 72151>>, <<72154, 72155>>, <<72160, 72160>>,
       <<72193, 72202>>, <<72243, 72248>>, <<72251, 72254>>, <<72263, 72263>>,
       <<72273, 72278>>, <<72281, 72283>>, <<72330, 72342>>, <<72344, 72345>>,
       <<72752, 72758>>, <<72760, 72765>>, <<72767, 72767>>, <<72850, 72871>>,
       <<72874, 72880>>, <<72882, 72883>>, <<72885, 72886>>, <<73009, 73014>>,
       <<73018, 73018>>, <<73020, 73021>>, <<73023, 73029>>, <<73031, 73031>>,
       <<73104, 73105>>, <<73109, 73109>>, <<73111, 73111>>, <<73459, 73460>>,
       <<78896, 78904>>, <<92912, 92916>>, <<92976, 92982>>, <<92992, 92995>>,
       <<94031, 94031>>, <<94095, 94111>>, <<94176, 94177>>, <<94179, 94180>>,
       <<110576, 110579>>, <<110581, 110587>>, <<110589, 110590>>,
       <<113821, 113822>>, <<113824, 113827>>, <<118528, 118573>>,
       <<118576, 118598>>, <<119143, 119145>>, <<119155, 119170>>,
       <<119173, 119179>>, <<119210, 119213>>, <<119362, 119364>>,
       <<121344, 121398>>, <<121403, 121452>>, <<121461, 121461>>,
       <<121476, 121476>>, <<121499, 121503>>, <<121505, 121519>>,
       <<122880, 122886>>, <<122888, 122904>>, <<122907, 122913>>,
       <<122915, 122916>>, <<122918, 122922>>, <<123184, 123197>>,
       <<123566, 123566>>, <<123628, 123631>>, <<125136, 125142>>,
       <<125252, 125259>>, <<127995, 127999>>, <<917505, 917505>>,
       <<917536, 917631>>, <<917760, 917999>> >>

\* the cased characters that are not case-ignorable, as runs <<first, last>>
CasedRuns ==
    << <<65, 90>>, <<97, 122>>, <<170, 170>>, <<181, 181>>, <<186, 186>>,
       <<192, 214>>, <<216, 246>>, <<248, 442>>, <<444, 447>>, <<452, 659>>,
       <<661, 687>>, <<880, 883>>, <<886, 887>>, <<891, 893>>, <<895, 895>>,
       <<902, 902>>, <<904, 906>>, <<908, 908>>, <<910, 929>>, <<931, 1013>>,
       <<1015, 1153>>, <<1162, 1327>>, <<1329, 1366>>, <<1376, 1416>>,
       <<4256, 4293>>, <<4295, 4295>>, <<4301, 4301>>, <<4304, 4346>>,
       <<4349, 4351>>, <<5024, 5109>>, <<5112, 5117>>, <<7296, 7304>>,
       <<7312, 7354>>, <<7357, 7359>>, <<7424, 7467>>, <<7531, 7543>>,
       <<7545, 7578>>, <<7680, 7957>>, <<7960, 7965>>, <<7968, 8005>>,
       <<8008, 8013>>, <<8016, 8023>>, <<8025, 8025>>, <<8027, 8027>>,
       <<8029, 8029>>, <<8031, 8061>>, <<8064, 8116>>, <<8118, 8124>>,
       <<8126, 8126>>, <<8130, 8132>>, <<8134, 8140>>, <<8144, 8147>>,
       <<8150, 8155>>, <<8160, 8172>>, <<8178, 8180>>, <<8182, 8188>>,
       <<8450, 8450>>, <<8455, 8455>>, <<8458, 8467>>, <<8469, 8469>>,
       <<8473, 8477>>, <<8484, 8484>>, <<8486, 8486>>, <<8488, 8488>>,
       <<8490, 8493>>, <<8495, 8500>>, <<8505, 8505>>, <<8508, 8511>>,
       <<8517, 8521>>, <<8526, 8526>>, <<8544, 8575>>, <<8579, 8580>>,
       <<9398, 9449>>, <<11264, 11387>>, <<11390, 11492>>, <<11499, 11502>>,
       <<11506, 11507>>, <<11520, 11557>>, <<11559, 11559>>, <<11565, 11565>>,
       <<42560, 42605>>, <<42624, 42651>>, <<42786, 42863>>, <<42865, 42887>>,
       <<42891, 42894>>, <<42896, 42954>>, <<42960, 42961>>, <<42963, 42963>>,
       <<42965, 42969>>, <<42997, 42998>>, <<43002, 43002>>, <<43824, 43866>>,
       <<43872, 43880>>, <<43888, 43967>>, <<64256, 64262>>, <<64275, 64279>>,
       <<65313, 65338>>, <<65345, 65370>>, <<66560, 66639>>, <<66736, 66771>>,
       <<66776, 66811>>, <<66928, 66938>>, <<66940, 66954>>, <<66956, 66962>>,
       <<66964, 66965>>, <<66967, 66977>>, <<66979, 66993>>, <<66995, 67001>>,
       <<67003, 67004>>, <<68736, 68786>>, <<68800, 68850>>, <<71840, 71903>>,
       <<93760, 93823>>, <<119808, 119892>>, <<119894, 119964>>,
       <<119966, 119967>>, <<119970, 119970>>, <<119973, 119974>>,
       <<119977, 119980>>, <<119982, 119993>>, <<119995, 119995>>,
       <<119997, 120003>>, <<120005, 120069>>, <<120071, 120074>>,
       <<120077, 120084>>, <<120086, 120092>>, <<120094, 120121>>,
       <<120123, 120126>>, <<120128, 120132>>, <<120134, 120134>>,
       <<120138, 120144>>, <<120146, 120485>>, <<120488, 120512>>,
       <<120514, 120538>>, <<120540, 120570>>, <<120572, 120596>>,
       <<120598, 120628>>, <<120630, 120654>>, <<120656, 120686>>,
       <<120688, 120712>>, <<120714, 120744>>, <<120746, 120770>>,
       <<120772, 120779>>, <<122624, 122633>>, <<122635, 122654>>,
       <<125184, 125251>>, <<127280, 127305>>, <<127312, 127337>>,
       <<127344, 127369>> >>

InRuns(c, runs) == \E i \in 1 .. Len(runs) : runs[i][1] <= c /\ c <= runs[i][2]

CaseIgnorable(c) == InRuns(c, CaseIgnorableRuns)

\* consulted only for characters that are not case-ignorable
Cased(c) == InRuns(c, CasedRuns)

\* the lowercase of a character that has one-character lowercase
ToLower(c) ==
    IF c < 128 THEN (IF c >= 65 /\ c <= 90 THEN c + 32 ELSE c)
    ELSE LET hit == { i \in 1 .. Len(LowerRuns) :
                        /\ LowerRuns[i][1] <= c /\ c <= LowerRuns[i][2]
                        /\ (c - LowerRuns[i][1]) % LowerRuns[i][3] = 0 }
         IN IF hit = {} THEN c ELSE c + LowerRuns[CHOOSE i \in hit : TRUE][4]

\* str.lower() of the one-character string chr(c); U+0130 has a lowercase
\* of two characters
LowerChar(c) == IF c = 304 THEN <<105, 775>> ELSE <<ToLower(c)>>

\* the capital sigma at position i of q ends a word: a cased character
\* comes before it and none after it, case-ignorable characters skipped
FinalSigma(q, i) ==
    LET before == { j \in 1 .. (i - 1) : ~CaseIgnorable(q[j]) }
        after == { j \in (i + 1) .. Len(q) : ~CaseIgnorable(q[j]) }
    IN /\ before # {}
       /\ Cased(q[CHOOSE j \in before : \A k \in before : k <= j])
       /\ after = {} \/ ~Cased(q[CHOOSE j \in after : \A k \in after : j <= k])

RECURSIVE LowerFrom(_, _)
LowerFrom(q, i) ==
    IF i > Len(q) THEN <<>>
    ELSE (IF q[i] = 931 THEN (IF FinalSigma(q, i) THEN <<962>> ELSE <<963>>)
          ELSE LowerChar(q[i])) \o LowerFrom(q, i + 1)

\* request.query.lower(); a string of ASCII characters keeps its length and
\* has no sigma
Lower(q) ==
    IF \A i \in 1 .. Len(q) : q[i] < 128
    THEN [i \in 1 .. Len(q) |-> ToLower(q[i])]
    ELSE LowerFrom(q, 1)

\* `keyword in query`
Contains(q, k) ==
    \E i \in 0 .. (Len(q) - Len(k)) : \A j \in 1 .. Len(k) : q[i + j] = k[j]

\* 'cricket', 'sports', 'match', 'game', 'wicket', 'yesterday'
cricket_keywords ==
    << <<99, 114, 105, 99, 107, 101, 116>>,
       <<115, 112, 111, 114, 116, 115>>,
       <<109, 97, 116, 99, 104>>,
       <<103, 97, 109, 101>>,
       <<119, 105, 99, 107, 101, 116>>,
       <<121, 101, 115, 116, 101, 114, 100, 97, 121>> >>

\* any(keyword in query for keyword in cricket_keywords), query lowercased
is_cricket_query(q) ==
    LET query == Lower(q) IN
    \E j \in 1 .. Len(cricket_keywords) : Contains(query, cricket_keywords[j])

RECURSIVE Join(_, _)
\* sep.join(parts)
Join(sep, parts) ==
    IF parts = <<>> THEN ""
    ELSE IF Len(parts) = 1 THEN parts[1]
    ELSE parts[1] \o sep \o Join(sep, Tail(parts))

\* Top3 cut one result short
Top3_Short(rs) == SubSeq(rs, 1, IF Len(rs) < 2 THEN Len(rs) ELSE 2)

\* results['organic_results'][:3]
Top3(rs) == SubSeq(rs, 1, IF Len(rs) < 3 THEN Len(rs) ELSE 3)

RECURSIVE Snippets(_)
\* [result['snippet'] for result in rs if 'snippet' in result]
Snippets(rs) ==
    IF rs = <<>> THEN <<>>
    ELSE IF "snippet" \in DOMAIN Head(rs)
         THEN <<Head(rs).snippet>> \o Snippets(Tail(rs))
         ELSE Snippets(Tail(rs))

HasOrganic(body) ==
    "organic_results" \in DOMAIN body /\ body.organic_results # <<>>

\* the search provider raises: requests.get fails or response.json() rejects the body
SerpRaises(serp) == serp.kind \in {"network_error", "bad_json"}

\* lines 191-210: response_text of the cricket branch, the provider called
SportsText(yesterday, serp) ==
    IF SerpRaises(serp)
    THEN "Unable to fetch cricket results. Please try again later."
    ELSE IF HasOrganic(serp.body)
    THEN LET cricket_info == Snippets(Top3(serp.body.organic_results)) IN
         IF cricket_info # <<>>
         THEN "Here are the cricket results from " \o yesterday \o ":\n\n"
                  \o Join("\n\n", cricket_info)
         ELSE "No detailed cricket results found for " \o yesterday
                  \o ". Please try searching for a different date."
    ELSE "No cricket results found for " \o yesterday
             \o ". Please try searching for a different date."

UnableAtTheMoment ==
    "Unable to access sena.services at the moment. Please try again later or visit the website directly."

Unable ==
    "Unable to access sena.services. Please try again later or visit the website directly."

\* FallbackText reading every organic result instead of the first three
FallbackText_AllResults(yesterday, serp) ==
    IF SerpRaises(serp)
    THEN Unable
    ELSE IF HasOrganic(serp.body) /\ Snippets(serp.body.organic_results) # <<>>
    THEN "Here are the cricket results from " \o yesterday \o ":\n\n"
             \o Join("\n\n", Snippets(serp.body.organic_results))
    ELSE UnableAtTheMoment

\* lines 258-285: response_text when the site answers with a status other than 200
FallbackText(yesterday, serp) ==
    IF SerpRaises(serp)
    THEN Unable
    ELSE IF HasOrganic(serp.body)
    THEN LET cricket_info == Snippets(Top3(serp.body.organic_results)) IN
         IF cricket_info # <<>>
         THEN "Here are the cricket results from " \o yesterday \o ":\n\n"
                  \o Join("\n\n", cricket_info)
         ELSE UnableAtTheMoment
    ELSE UnableAtTheMoment

\* A fetched page, as the parser presents it: the item lists of the
\* containers whose class mentions "service", and the paragraphs of the
\* main content.  An item is [text, mentions]; mentions says that
\* text.lower() contains 'service' or 'offer'.
RECURSIVE Flatten(_)
Flatten(ss) == IF ss = <<>> THEN <<>> ELSE Head(ss) \o Flatten(Tail(ss))

RECURSIVE Texts(_)
Texts(items) == IF items = <<>> THEN <<>> ELSE <<Head(items).text>> \o Texts(Tail(items))

LongerThan10(item) == item.text # "" /\ Len(item.text) > 10

ServiceParagraph(item) == item.text # "" /\ Len(item.text) > 20 /\ item.mentions

DefaultServices ==
    <<"Web Development", "Mobile App Development", "Cloud Services",
      "AI and Machine Learning", "Digital Marketing", "IT Consulting">>

\* lines 221-253: the services list extracted from a page
Services(page) ==
    LET a == Texts(SelectSeq(Flatten(page.sections), LongerThan10))
        b == Texts(SelectSeq(page.paragraphs, ServiceParagraph))
    IN IF a # <<>> THEN a ELSE IF b # <<>> THEN b ELSE DefaultServices

RECURSIVE Bullets(_)
\* [f"- {service}" for service in services]
Bullets(services) ==
    IF services = <<>> THEN <<>>
    ELSE <<"- " \o Head(services)>> \o Bullets(Tail(services))

\* lines 214-285: response_text of the branch that fetches sena.services,
\* every statement of it reached
SiteText(yesterday, site, serp) ==
    IF site.kind = "raise" THEN Unable
    ELSE IF site.status = 200
    THEN "Sena provides the following services:\n"
             \o Join("\n", Bullets(Services(site.page)))
             \o "\n\nFor more detailed information, please visit https://sena.services directly."
    ELSE FallbackText(yesterday, serp)

\* the print() statements of search, by line
SearchPrints == {170, 177, 182, 209, 213, 259, 263, 284, 314, 321}

\* those whose exception leaves the try block of line 168 for its handler
Escaping == {170, 177, 182, 209, 213, 284, 314}

\* lines 320-325: the catch-all of search; bad are the print() statements
\* that raise when they are reached
SearchUnexpected(bad) ==
    IF 321 \in bad THEN ServerError
    ELSE Failure("Unexpected error: " \o PrintError)

\* requests.get('https://sena.services') is reached
SiteFetched(sports, bad) == ~sports /\ bad \cap {170, 213} = {}

\* requests.get('https://serpapi.com/search') is reached
SerpCalled(sports, site, bad) ==
    IF sports
    THEN bad \cap {170, 177, 182} = {}
    ELSE /\ bad \cap {170, 213, 259, 263} = {}
         /\ site.kind = "status" /\ site.status # 200

\* lines 283-285: the try block of line 214 ends in its handler
SiteHandled(site, serp, bad) ==
    \/ site.kind = "raise"
    \/ /\ site.kind = "status" /\ site.status # 200
       /\ bad \cap {259, 263} # {} \/ SerpRaises(serp)

\* the print() statements lines 169-285 reach; sports is the value of
\* is_cricket_query
RetrievalPrints(sports, site, serp, bad) ==
    {170} \cup
    IF 170 \in bad THEN {}
    ELSE IF sports
    THEN {177} \cup (IF 177 \in bad THEN {} ELSE {182})
               \cup (IF bad \cap {177, 182} = {} /\ SerpRaises(serp) THEN {209} ELSE {})
    ELSE {213} \cup (IF 213 \in bad \/ site.kind # "status" \/ site.status = 200 THEN {}
                     ELSE {259} \cup (IF 259 \in bad THEN {} ELSE {263}))
               \cup (IF 213 \notin bad /\ SiteHandled(site, serp, bad) THEN {284} ELSE {})

\* lines 169-285 end in an exception: one of their print() statements raises
\* outside the two inner try blocks or inside one of their handlers
RetrievalRaises(sports, site, serp, bad) ==
    RetrievalPrints(sports, site, serp, bad) \cap bad \cap Escaping # {}

\* lines 176-285: response_text, when they end without an exception; sports
\* is the value of is_cricket_query
RetrieveText(sports, c, site, serp, bad) ==
    IF sports
    THEN SportsText(LongDate(Yesterday(DateOf(c))), serp)
    ELSE IF SiteHandled(site, serp, bad) THEN Unable
    ELSE SiteText(LongDate(Yesterday(DateOf(c))), site, serp)

B64Chars ==     << "A", "B", "C", "D", "E", "F", "G", "H", "I", "J", "K",
       "L", "M", "N", "O", "P", "Q", "R", "S", "T", "U", "V", "W", "X", "Y",
       "Z", "a", "b", "c", "d", "e", "f", "g", "h", "i", "j", "k", "l", "m",
       "n", "o", "p", "q", "r", "s", "t", "u", "v", "w", "x", "y", "z", "0",
       "1", "2", "3", "4", "5", "6", "7", "8", "9", "+", "/" >>

RECURSIVE b64encode(_)
\* base64.b64encode(bs).decode('utf-8')
b64encode(bs) ==
    IF bs = <<>> THEN ""
    ELSE IF Len(bs) = 1
    THEN B64Chars[(bs[1] \div 4) + 1] \o B64Chars[(bs[1] % 4) * 16 + 1] \o "=="
    ELSE IF Len(bs) = 2
    THEN B64Chars[(bs[1] \div 4) + 1] \o B64Chars[(bs[1] % 4) * 16 + (bs[2] \div 16) + 1]
             \o B64Chars[(bs[2] % 16) * 4 + 1] \o "="
    ELSE B64Chars[(bs[1] \div 4) + 1] \o B64Chars[(bs[1] % 4) * 16 + (bs[2] \div 16) + 1]
             \o B64Chars[(bs[2] % 16) * 4 + (bs[3] \div 64) + 1] \o B64Chars[(bs[3] % 64) + 1]
             \o b64encode(SubSeq(bs, 4, Len(bs)))

AudioFailed(text) ==
    Success([text |-> text, error |-> "Failed to generate audio response"])

\* lines 313-318: the handler of the speech step
SpeechError(f, text, bad) ==
    [fs |-> f,
     prints |-> {314} \cup (IF 314 \in bad THEN {321} ELSE {}),
     response |-> IF 314 \in bad THEN SearchUnexpected(bad) ELSE AudioFailed(text)]

\* lines 288-318: synthesize the text, pass the audio through a temporary file
\* t.create_ok  client.audio.speech.create returns the speech
\* t.audio      the bytes of the speech
\* t.streamed   bytes stream_to_file stores before it returns or raises
\* t.read_ok    reading the file back succeeds
\* t.remove_ok  os.remove succeeds
\* held are the files the suspended transcription requests keep open
Synthesize(f, path, held, text, t, bad) ==
    IF ~t.create_ok
    THEN SpeechError(f, text, bad)
    ELSE LET g == OpenWB(f, path, held)
             h == WriteAt0(g, Entry(g, path).ino, SubSeq(t.audio, 1, t.streamed))
         IN IF t.streamed < Len(t.audio) \/ ~t.read_ok \/ ~t.remove_ok
            THEN SpeechError(h, text, bad)
            ELSE [fs |-> Remove(h, path), prints |-> {},
                  response |-> Success([text |-> text,
                                        audio |-> b64encode(Entry(h, path).data)])]


(* ----------------------- inputs of /api/search ------------------------- *)

\* the queries a client may send
Queries ==
    {
      \* "Cricket"
      <<67, 114, 105, 99, 107, 101, 116>>,
      \* "SPORTS news"
      <<83, 80, 79, 82, 84, 83, 32, 110, 101, 119, 115>>,
      \* "rematch"
      <<114, 101, 109, 97, 116, 99, 104>>,
      \* "GaMe on"
      <<71, 97, 77, 101, 32, 111, 110>>,
      \* "wickets"
      <<119, 105, 99, 107, 101, 116, 115>>,
      \* "Yesterday"
      <<89, 101, 115, 116, 101, 114, 100, 97, 121>>,
      \* ""
      <<>>,
      \* "gam e"
      <<103, 97, 109, 32, 101>>,
      \* "cric" U+212A (kelvin sign) "et"
      <<99, 114, 105, 99, 8490, 101, 116>>,
      \* "w" U+0130 (capital I with dot above) "cket"
      <<119, 304, 99, 107, 101, 116>>,
      \* "WHAT DOES SENA OFFER"
      <<87, 72, 65, 84, 32, 68, 79, 69, 83, 32, 83, 69, 78, 65, 32, 79, 70, 70, 69, 82>> }

Item(text, mentions) == [text |-> text, mentions |-> mentions]

EmptyPage == [sections |-> <<>>, paragraphs |-> <<>>]

\* the pages sena.services may answer with
Pages ==
    { [sections |-> << <<Item("Custom software development", FALSE),
                         Item("Cloud hosting and migration", FALSE),
                         Item("Apps", FALSE),
                         Item("Managed IT service desk", TRUE)>> >>,
       paragraphs |-> <<Item("We offer consulting to small firms", TRUE)>>],
      [sections |-> << <<Item("Home", FALSE)>> >>,
       paragraphs |-> <<Item("We offer consulting to small firms", TRUE),
                        Item("A long paragraph about our history", FALSE),
                        Item("Our service", TRUE)>>],
      [sections |-> <<>>,
       paragraphs |-> <<Item("Welcome to our company web site", FALSE)>>] }

SiteNotFetched == [kind |-> "none", status |-> 0, page |-> EmptyPage]

\* what requests.get('https://sena.services') may do
Sites ==
    {[kind |-> "raise", status |-> 0, page |-> EmptyPage]}
    \cup {[kind |-> "status", status |-> c, page |-> EmptyPage] : c \in {404}}
    \cup {[kind |-> "status", status |-> 200, page |-> p] : p \in Pages}

\* the i-th organic result, with or without a snippet
Result(i, with) ==
    IF with THEN [title |-> "result " \o ToString(i), snippet |-> "snippet " \o ToString(i)]
    ELSE [title |-> "result " \o ToString(i)]

ResultLists ==
    UNION { { [i \in 1 .. n |-> Result(i, i \in S)] : S \in SUBSET (1 .. n) } :
            n \in 0 .. MaxResults }

SerpNotCalled == [kind |-> "none", body |-> [error |-> ""]]

\* what the search provider may do
Serps ==
    {[kind |-> k, body |-> [error |-> ""]] : k \in {"network_error", "bad_json"}}
    \cup {[kind |-> "json", body |-> [error |-> "Invalid API key."]]}
    \cup {[kind |-> "json", body |-> [organic_results |-> rs]] : rs \in ResultLists}

\* the speech the text-to-speech provider may return
Audios == {<<255>>}

TtsNotCalled ==
    [create_ok |-> TRUE, audio |-> <<>>, streamed |-> 0, read_ok |-> TRUE, remove_ok |-> TRUE]

\* what the speech step may meet; a step not reached takes its success value
Ttss ==
    {[create_ok |-> FALSE, audio |-> <<>>, streamed |-> 0, read_ok |-> TRUE, remove_ok |-> TRUE]}
    \cup { t \in [create_ok : {TRUE}, audio : Audios, streamed : 0 .. 1,
                  read_ok : BOOLEAN, remove_ok : BOOLEAN] :
             /\ t.streamed <= Len(t.audio)
             /\ t.streamed < Len(t.audio) => (t.read_ok /\ t.remove_ok)
             /\ (~t.read_ok) => t.remove_ok }

\* the outcomes of the print() statements of one request: the first that
\* raises outside the inner try blocks ends lines 169-318
SearchLogs ==
    { bad : bad \in { bad \in SUBSET SearchPrints :
                        /\ Cardinality(bad \cap Escaping) <= 1
                        /\ Cardinality(bad \cap {259, 263}) <= 1
                        /\ 321 \in bad => bad \cap Escaping # {} } }

\* the outcomes of the calls the handler reaches
SitesFor(sports, bad) == IF SiteFetched(sports, bad) THEN Sites ELSE {SiteNotFetched}

SerpsFor(sports, site, bad, serps) ==
    IF SerpCalled(sports, site, bad) THEN serps ELSE {SerpNotCalled}

TtssFor(sports, site, serp, bad, ttss) ==
    IF RetrievalRaises(sports, site, serp, bad) THEN {TtsNotCalled} ELSE ttss

IdleS ==
    [pc |-> "idle", query |-> <<>>, at |-> [y |-> 0, m |-> 0, d |-> 0],
     site |-> SiteNotFetched, serp |-> SerpNotCalled, tts |-> TtsNotCalled, bad |-> {},
     response_text |-> "", temp_audio_path |-> "", response |-> NoResponse]

\* a search request arrives
SearchArrive(q) ==
    /\ sreq.pc = "idle"
    /\ sreq' = [IdleS EXCEPT !.pc = "pending", !.query = q]
    /\ UNCHANGED <<now, fs, treq>>

\* lines 167-325: the handler, which never awaits, runs from entry to return.
\* It reads the clock for the date of the text (line 179 or 261) and again
\* for the name of the audio file (line 297); the calls to the site and the
\* providers in between block while the clock runs on to `later`.
\* bad are the print() statements that raise when they are reached.  The
\* request keeps the outcomes of the calls it made.
search(site, serp, t, later, bad) ==
    /\ sreq.pc = "pending"
    /\ LET sports == is_cricket_query(sreq.query)
           raised == RetrievalRaises(sports, site, serp, bad)
           named == ~raised /\ t.create_ok
           path == SearchPath(later)
           response_text ==
               IF raised THEN "" ELSE RetrieveText(sports, now, site, serp, bad)
           r == IF raised
                THEN [fs |-> fs, prints |-> {321}, response |-> SearchUnexpected(bad)]
                ELSE Synthesize(fs, path, Held, response_text, t, bad)
       IN /\ bad \subseteq RetrievalPrints(sports, site, serp, bad) \cup r.prints
          /\ named \/ later = now
          /\ fs' = r.fs
          /\ sreq' = [sreq EXCEPT !.pc = "done", !.at = DateOf(now), !.bad = bad,
                                  !.site = IF SiteFetched(sports, bad)
                                           THEN site ELSE SiteNotFetched,
                                  !.serp = IF SerpCalled(sports, site, bad)
                                           THEN serp ELSE SerpNotCalled,
                                  !.tts = IF raised THEN TtsNotCalled ELSE t,
                                  !.response_text = response_text,
                                  !.temp_audio_path = IF named THEN path ELSE "",
                                  !.response = r.response]
    /\ now' = later
    /\ UNCHANGED treq

\* the response has gone to the client
SearchReturn ==
    /\ sreq.pc = "done"
    /\ sreq' = IdleS
    /\ UNCHANGED <<now, fs, treq>>

(* ------------------------------- clock --------------------------------- *)

Tick ==
    /\ now.s < MaxSec
    /\ now' = NextSecond(now)
    /\ UNCHANGED <<fs, treq, sreq>>

Midnight ==
    /\ now.n < MaxDays
    /\ now' = NextDay(now)
    /\ UNCHANGED <<fs, treq, sreq>>

(* --------------------------- specifications ---------------------------- *)

Init ==
    /\ now \in { d @@ [s |-> 0, n |-> 0] : d \in StartDates }
    /\ fs = {}
    /\ treq = [s \in Slots |-> IdleT]
    /\ sreq = IdleS

\* the steps of the transcription requests; of the print() statements only
\* those in logs may raise
TranscribeStep(logs) ==
    \/ \E s \in Slots, content \in Uploads, open_ok \in BOOLEAN :
           \E bad \in SUBSET (StartPrints \cap logs) :
               TranscribeStart(s, content, open_ok, bad)
    \/ \E s \in Slots :
           /\ treq[s].pc = "reading"
           /\ \E o \in TOutcomes(treq[s].content) :
                  o.bad \subseteq logs /\ TranscribeResume(s, o)
    \/ \E s \in Slots : TranscribeReturn(s)

\* the steps of the search requests, for the queries, the provider outcomes
\* and the later clock readings given
SearchStep(queries, serps, ttss, laters) ==
    \/ \E q \in queries : SearchArrive(q)
    \/ /\ sreq.pc = "pending"
       /\ LET sports == is_cricket_query(sreq.query) IN
          \E later \in laters, bad \in SearchLogs :
              \E site \in SitesFor(sports, bad) :
                  \E serp \in SerpsFor(sports, site, bad, serps) :
                      \E t \in TtssFor(sports, site, serp, bad, ttss) :
                          search(site, serp, t, later, bad)
    \/ SearchReturn

Next ==
    \/ TranscribeStep(StartPrints \cup ResumePrints)
    \/ SearchStep(Queries, Serps, Ttss, ClockAfter(now))
    \/ Tick
    \/ Midnight

\* the whole server
Spec == Init /\ [][Next]_vars

InitOneDate == Init /\ DateOf(now) = [y |-> 2024, m |-> 2, d |-> 29]

\* transcription requests that arrive within one second, so that they share
\* the name of the temporary file
NextTranscribe == TranscribeStep(StartPrints \cup ResumePrints)

SpecTranscribe == InitOneDate /\ [][NextTranscribe]_vars

\* transcription requests over several seconds, every log write succeeding
NextFiles ==
    \/ TranscribeStep({})
    \/ Tick

SpecFiles == InitOneDate /\ [][NextFiles]_vars

\* the speech step either fails at once or succeeds
TtssPlain ==
    { t \in Ttss : ~t.create_ok \/ (t.streamed = Len(t.audio) /\ t.read_ok /\ t.remove_ok) }

\* search requests over several days, for the texts of the retrieval step:
\* the texts change with the date, whatever the second
NextRetrieval ==
    \/ SearchStep(Queries, Serps, TtssPlain, {now})
    \/ Midnight

SpecRetrieval == Init /\ [][NextRetrieval]_vars

\* a query of each path
SpeechQueries == { <<>>, <<67, 114, 105, 99, 107, 101, 116>> }

\* the provider outcomes with at most one organic result
SerpsFew ==
    { serp \in Serps :
        "organic_results" \in DOMAIN serp.body => Len(serp.body.organic_results) <= 1 }

\* search requests over several days, for the speech step and its file; the
\* clock is read at midnights
NextSpeech ==
    \/ SearchStep(SpeechQueries, SerpsFew, Ttss, DaysAfter(now))
    \/ Midnight

SpecSpeech == InitOneDate /\ [][NextSpeech]_vars

(* ------------------------------- claims -------------------------------- *)

TDone(s) == treq[s].pc = "done"

SDone == sreq.pc = "done"

\* C1: whenever /api/transcribe returns after it created its temporary file,
\* on whatever route (os.remove itself not failing), that file is no longer
\* in the temporary directory.
C1_TempFileGoneAtReturn ==
    [][\A s \in Slots :
          (treq[s].pc = "reading" /\ treq'[s].pc = "done" /\ treq'[s].o.remove_ok)
              => ~Exists(fs', treq'[s].temp_path)]_vars

\* C2: whenever /api/search returns after it named a temporary audio file,
\* that file is no longer in the temporary directory (synthesis success,
\* failure while streaming, failure while reading back).
C2_AudioFileGoneAtReturn ==
    (SDone /\ sreq.tts.create_ok /\ sreq.tts.remove_ok)
        => ~Exists(fs, sreq.temp_audio_path)

\* the site answered with a status other than 200
FellBack == SDone /\ sreq.site.kind = "status" /\ sreq.site.status # 200

\* lines 169-285 of the request ended with a response_text
Retrieved ==
    /\ SDone
    /\ ~RetrievalRaises(is_cricket_query(sreq.query), sreq.site, sreq.serp, sreq.bad)

\* the provider answered with organic results of which one of the first
\* three carries a snippet
SnippetInTop3(serp) ==
    /\ serp.kind = "json"
    /\ "organic_results" \in DOMAIN serp.body
    /\ \E i \in 1 .. Len(serp.body.organic_results) :
          i <= 3 /\ "snippet" \in DOMAIN serp.body.organic_results[i]

\* C3 as stated: after a non-200 site fetch the text is the text of a direct
\* sports query for the same date and the same provider outcome, whatever
\* the provider outcome.
C3_FallbackVerbatim ==
    (FellBack /\ Retrieved /\ sreq.serp.kind # "none") =>
        sreq.response_text = SportsText(LongDate(Yesterday(sreq.at)), sreq.serp)

\* C3 amended: after a non-200 site fetch the text, when the retrieval step
\* produces one, is the text of a direct sports query for the same date and
\* provider outcome when one of the first three organic results carries a
\* snippet; in every other case it is one of the two fixed "unable to access
\* sena.services" messages.  A response that carries a text carries this one.
C3_FallbackSameWithSnippets ==
    (FellBack /\ Retrieved) =>
        /\ IF SnippetInTop3(sreq.serp)
           THEN sreq.response_text = SportsText(LongDate(Yesterday(sreq.at)), sreq.serp)
           ELSE sreq.response_text \in {Unable, UnableAtTheMoment}
        /\ "text" \in DOMAIN sreq.response.body
               => sreq.response.body.text = sreq.response_text

C3_Witness ==
    /\ FellBack
    /\ SnippetInTop3(sreq.serp)
    /\ Len(sreq.serp.body.organic_results) = 4
    /\ sreq.at = [y |-> 2024, m |-> 3, d |-> 1]
    /\ "text" \in DOMAIN sreq.response.body
    /\ sreq.response.body.text =
          "Here are the cricket results from February 29, 2024:\n\nsnippet 1\n\nsnippet 3"

\* C4 as stated, for the responses: every transcription response is the one
\* the request gets when it runs alone with the same upload and the same
\* outcomes of the file system and the provider.
C4_Isolated ==
    \A s \in Slots :
        TDone(s) => treq[s].response = TranscribeAlone(treq[s].content, treq[s].o)

\* the speech step failed: synthesis itself or the file I/O around it
SpeechFailed(t) ==
    ~t.create_ok \/ t.streamed < Len(t.audio) \/ ~t.read_ok \/ ~t.remove_ok

\* C5: when the speech step fails the response has status 200, the text of
\* the retrieval step, the error "Failed to generate audio response" and no
\* audio; a response carries audio only when the speech step succeeded.
C5_SpeechFailureKeepsText ==
    SDone =>
        /\ SpeechFailed(sreq.tts) =>
              /\ sreq.response.status = 200
              /\ DOMAIN sreq.response.body = {"text", "error"}
              /\ sreq.response.body.text = sreq.response_text
              /\ sreq.response.body.error = "Failed to generate audio response"
        /\ "audio" \in DOMAIN sreq.response.body => ~SpeechFailed(sreq.tts)

\* C6: a zero-byte upload gets a failure status, and the transcription
\* provider is not called for that request.
C6_EmptyUploadRejected ==
    \A s \in Slots :
        (TDone(s) /\ treq[s].content = <<>>)
            => (treq[s].response.status >= 400 /\ ~treq[s].stt_called)

C6_Witness ==
    \E s \in Slots :
        /\ TDone(s) /\ treq[s].content = <<>>
        /\ treq[s].o.open_ok /\ treq[s].o.read_ok
        /\ treq[s].response = Failure("Error saving file: Empty file received")

\* C7: whatever the site fetch and the search provider do, a request whose
\* log writes outside the retrieval step and whose speech step's log write
\* succeed ends with status 200 and a non-empty text.
C7_RetrievalNeverFails ==
    (SDone /\ sreq.bad \cap {170, 177, 182, 213, 314} = {}) =>
        /\ sreq.response.status = 200
        /\ "text" \in DOMAIN sreq.response.body
        /\ sreq.response.body.text # ""

\* the save stage failed by what the environment did to the request
SaveFailed(q) ==
    ~q.o.open_ok \/ ~q.o.read_ok \/ q.content = <<>> \/ q.o.wrote < Len(q.content)

\* the texts the transcription provider can return
Transcripts ==
    { Whisper(a) : a \in UNION { [1 .. n -> {1, 2}] : n \in 1 .. 2 } }

\* C8: a failure of the save stage or of the transcription stage gets status
\* 500 and an error message (the error field of the body, or the text of the
\* framework's own answer); status 200 with a text is returned only when the
\* provider call succeeded, and the text is the provider's transcript.
C8_FailuresAreReported ==
    \A s \in Slots :
        TDone(s) =>
            LET q == treq[s] r == treq[s].response IN
            /\ r.status \in {200, 500}
            /\ (SaveFailed(q) \/ ~q.o.stt_ok) => r.status = 500
            /\ r.status = 500 =>
                  \/ DOMAIN r.body = {"error"} /\ r.body.error # ""
                  \/ DOMAIN r.body = {"plain"} /\ r.body.plain # ""
            /\ r.status = 200 =>
                  /\ q.stt_called /\ q.o.stt_ok
                  /\ DOMAIN r.body = {"text"}
                  /\ r.body.text \in Transcripts

C8_Witness ==
    \E s \in Slots :
        /\ TDone(s)
        /\ treq[s].stt_called /\ ~treq[s].o.stt_ok
        /\ treq[s].response = Failure("Error during transcription: provider error")

\* the capital forms of the small letter c of a keyword: the capital letter
\* of the alphabet and, for k, the kelvin sign U+212A
CapitalForms(c) == {c - 32} \cup (IF c = 107 THEN {8490} ELSE {})

\* keyword k occurs in query q in some letter case
OccursAnyCase(q, k) ==
    \E i \in 0 .. (Len(q) - Len(k)) :
        \A j \in 1 .. Len(k) : q[i + j] = k[j] \/ q[i + j] \in CapitalForms(k[j])

MentionsKeyword(q) ==
    \E n \in 1 .. Len(cricket_keywords) : OccursAnyCase(q, cricket_keywords[n])

\* C9: a query that contains one of the six keywords in any letter case
\* takes the sports path (the search provider is called, the site is not
\* fetched); a query that contains none takes the site path (the site is
\* fetched).
C9_KeywordRouting ==
    SDone =>
        IF MentionsKeyword(sreq.query)
        THEN sreq.serp.kind # "none" /\ sreq.site.kind = "none"
        ELSE sreq.site.kind # "none"

\* the request ended in the catch-all of line 320 before the speech step
Aborted ==
    /\ sreq.response \in {SearchUnexpected({}), SearchUnexpected({321})}
    /\ sreq.tts = TtsNotCalled

\* the routing of the requests that reach their call: a query with a keyword
\* never has the site fetched, a query without one never has the provider
\* called before the site, and a request makes neither call only when the
\* catch-all ended it
RoutingUnlessAborted ==
    SDone =>
        IF MentionsKeyword(sreq.query)
        THEN sreq.site.kind = "none" /\ (sreq.serp.kind # "none" \/ Aborted)
        ELSE sreq.site.kind # "none" \/ (sreq.serp.kind = "none" /\ Aborted)

\* the provider answered a sports query with organic results
SportsResults ==
    /\ SDone
    /\ sreq.site.kind = "none"
    /\ sreq.serp.kind = "json"
    /\ "organic_results" \in DOMAIN sreq.serp.body

RECURSIVE JoinAt(_, _)
\* the snippets of the results at the positions ps, in increasing position,
\* with a blank line between two of them
JoinAt(rs, ps) ==
    IF ps = {} THEN ""
    ELSE LET i == CHOOSE p \in ps : \A r \in ps : p <= r IN
         IF ps = {i} THEN rs[i].snippet
         ELSE rs[i].snippet \o "\n\n" \o JoinAt(rs, ps \ {i})

\* the first three of the positions ps
First3(ps) == { p \in ps : Cardinality({ r \in ps : r < p }) < 3 }

WithSnippet(rs) == { i \in 1 .. Len(rs) : "snippet" \in DOMAIN rs[i] }

\* the header naming the day before date t
HeaderFor(t) ==
    LET days == { D \in [y : {t.y - 1, t.y}, m : {t.m, ((t.m + 10) % 12) + 1}, d : 1 .. 31] :
                    D.d <= DaysInMonth(D.y, D.m) /\ Tomorrow(D) = t }
    IN "Here are the cricket results from " \o LongDate(CHOOSE D \in days : TRUE) \o ":\n\n"

\* C10 as stated: when some result carries a snippet, the text is the header
\* naming yesterday followed by the snippets of the first three
\* snippet-bearing results, in provider order, a blank line between them.
C10_First3SnippetBearing ==
    (SportsResults /\ WithSnippet(sreq.serp.body.organic_results) # {}) =>
        LET rs == sreq.serp.body.organic_results IN
        sreq.response_text = HeaderFor(sreq.at) \o JoinAt(rs, First3(WithSnippet(rs)))

\* C10 amended: when one of the first three results carries a snippet, the
\* text is the header naming yesterday followed by the snippets of the
\* snippet-bearing results among the first three results, in provider order,
\* a blank line between them; later results are never used.  A response that
\* carries a text carries this one.
C10_SnippetsOfFirst3Results ==
    (SportsResults /\ SnippetInTop3(sreq.serp)) =>
        LET rs == sreq.serp.body.organic_results IN
        /\ sreq.response_text
               = HeaderFor(sreq.at) \o JoinAt(rs, { i \in WithSnippet(rs) : i <= 3 })
        /\ "text" \in DOMAIN sreq.response.body
               => sreq.response.body.text = sreq.response_text

C10_Witness ==
    /\ SportsResults
    /\ Len(sreq.serp.body.organic_results) = 4
    /\ WithSnippet(sreq.serp.body.organic_results) = {2, 3, 4}
    /\ sreq.at = [y |-> 2024, m |-> 1, d |-> 1]
    /\ "text" \in DOMAIN sreq.response.body
    /\ sreq.response.body.text =
          "Here are the cricket results from December 31, 2023:\n\nsnippet 2\n\nsnippet 3"

====
